---- MODULE Spec2Model ----
(***************************************************************************)
(* The attention model AM of utils/nets/am.py as a state machine: the      *)
(* object's configuration (decode_type, temp), one call of forward() with  *)
(* the decode loop of decoder() stepped one iteration at a time, and       *)
(* _select_node() with its rejection-sampling loop.                        *)
(*                                                                         *)
(* Representation.                                                         *)
(*  - A batch tensor of shape (B,) is a function over 1..B; node indices   *)
(*    are 0..N-1 as in the code.                                           *)
(*  - Coordinates are corners of a 3 x 4 rectangle, so every Euclidean     *)
(*    distance that arises (0, 3, 4, 5) is exact and sqrt is computed.     *)
(*  - exp(x) is 4^x: a row of probabilities is the record [w, z] of the    *)
(*    integer weights w[j] = 4^((logit_j + tanh_clipping)/temp) and their  *)
(*    sum z; the probability of j is w[j]/z, written <<w[j], z>>.  A       *)
(*    masked logit is -inf and has weight 0.                               *)
(*  - The encoder and the projections are a black box into the clipped     *)
(*    range -tanh_clipping..tanh_clipping; NetLogit stands for it: a fixed *)
(*    function of the instance, the row, the step context and the node.    *)
(***************************************************************************)
EXTENDS Integers, Sequences, FiniteSets, TLC

\* ------------------------------------------------------------- bounds
MaxBatch == 2
MaxNodes == 3
MaxRetries == 2
tanh_clipping == 1

\* ------------------------------------------------------- input domains
Temps == {1, 2}
Shapes == {0, 1}
DecodeTypes == {"None", "greedy", "sampling", "beam"}
Supported == {"greedy", "sampling"}
Corner == << <<0, 0>>, <<3, 0>>, <<3, 4>>, <<0, 4>> >>

VARIABLES
    decode_type, temp,    \* self.decode_type, self.temp
    pc,                   \* "idle", "loop", "sampling", "returned",
                          \* "select_returned", "error"
    err,                  \* the exception that ended the call, "" if none
    caller,               \* who called _select_node: "decoder" or "direct"
    input,                \* forward's input, (B, N, 2)
    tour_to_be_evaluated, \* forward's reference tour, <<>> for None
    state,                \* decoder's TSP state
    i,                    \* decoder's local step counter
    log_ps, instant_rewards, values, tours,   \* decoder's lists
    selected, previous,   \* decoder's locals, <<>> while unbound
    probs, mask,          \* _select_node's arguments
    draw,                 \* _select_node's local `selected`
    diag,                 \* number of 'Sampled bad values' lines printed
    ret                   \* the tuple decoder() returned

config == <<decode_type, temp>>
frame == <<input, tour_to_be_evaluated, state, i, log_ps, instant_rewards,
           values, tours, selected, previous, ret>>
selframe == <<probs, mask, draw, diag>>
vars == <<decode_type, temp, pc, err, caller, input,
          tour_to_be_evaluated, state, i, log_ps, instant_rewards, values,
          tours, selected, previous, probs, mask, draw, diag, ret>>

\* ----------------------------------------------------------- helpers
Unbound == <<>>
None == <<>>
Rows(B) == 1..B
NodeIds(N) == 0..(N - 1)
batch_size == Len(input)
n_node == IF Len(input) = 0 THEN 0 ELSE Len(input[1])

RECURSIVE SumOver(_, _)
SumOver(f, S) ==
    IF S = {} THEN 0
    ELSE LET x == CHOOSE y \in S : TRUE IN f[x] + SumOver(f, S \ {x})

\* Tensor.sqrt on the radicands that arise (perfect squares are exact).
Sqrt(q) == CHOOSE r \in 0..q : r * r <= q /\ (r + 1) * (r + 1) > q

\* Tensor.squeeze(): every dimension of size 1 is removed.
Squeeze(shape) == SelectSeq(shape, LAMBDA d : d # 1)

\* torch.stack(list, 1) of a list of (B,) tensors: shape (B, len(list)).
Stack(list, B) == [b \in Rows(B) |-> [k \in 1..Len(list) |-> list[k][b]]]

\* An instance of the bounded family: row b visits the rectangle's corners
\* with stride shape+1, starting at corner b.
Instance(B, N, shape) ==
    [b \in Rows(B) |->
        [n \in 1..N |-> Corner[(((n - 1) * (shape + 1) + (b - 1)) % 4) + 1]]]

Rotate(r, k) == [n \in 1..Len(r) |-> r[((n - 1 + k) % Len(r)) + 1]]

\* Reference tours of the bounded family: row 1 is any sequence of N node
\* indices (permutation or not), row b is row 1 rotated by b-1 places.
RefTours(B, N) ==
    {[b \in Rows(B) |-> Rotate(r, b - 1)] : r \in [1..N -> NodeIds(N)]}

\* Masks of the bounded family for a direct call of _select_node: row 1 is
\* any set of nodes, row b is row 1 shifted by 2(b-1) places.
DirectMasks(B, N) ==
    {[b \in Rows(B) |-> {(j + 2 * (b - 1)) % N : j \in S}] : S \in SUBSET NodeIds(N)}

\* ------------------------------------------------ calc_distance (74-81)
calc_distance(points, current, prev) ==
    [b \in Rows(Len(points)) |->
        LET point_current == points[b][current[b] + 1]
            point_previous == points[b][prev[b] + 1]
            dif == <<point_current[1] - point_previous[1],
                     point_current[2] - point_previous[2]>>
            dif2 == <<dif[1] * dif[1], dif[2] * dif[2]>>
        IN Sqrt(dif2[1] + dif2[2])]

Neg(v) == [b \in DOMAIN v |-> 0 - v[b]]

\* ------------------------------------------- TSP state (external module)
make_state(inp) ==
    [first_a |-> [b \in Rows(Len(inp)) |-> 0],
     prev_a |-> [b \in Rows(Len(inp)) |-> 0],
     visited |-> [b \in Rows(Len(inp)) |-> {}],
     i |-> 0]

update(st, sel) ==
    [first_a |-> IF st.i = 0 THEN sel ELSE st.first_a,
     prev_a |-> sel,
     visited |-> [b \in DOMAIN st.visited |-> st.visited[b] \cup {sel[b]}],
     i |-> st.i + 1]

all_finished(st, N) == st.i >= N
get_mask(st) == st.visited
get_current_node(st) == st.prev_a

get_costs(inp, pi) ==
    [b \in Rows(Len(inp)) |->
        LET N == Len(pi[b])
            leg == [k \in 1..N |->
                      calc_distance(inp, [c \in Rows(Len(inp)) |-> pi[c][(k % N) + 1]],
                                    [c \in Rows(Len(inp)) |-> pi[c][k]])[b]]
        IN SumOver(leg, 1..N)]

\* --------------------------------- _get_parallel_step_context (191-204)
get_parallel_step_context(st) ==
    LET current_node == get_current_node(st)
    IN [b \in DOMAIN current_node |->
          IF st.i = 0 THEN <<"W_placeholder">>
          ELSE <<"first_last", st.first_a[b], current_node[b]>>]

\* ------------------------------------------------------ the network
CtxCode(c) == IF c[1] = "W_placeholder" THEN 0 ELSE 1 + c[2] + 2 * c[3]

NetLogit(inp, b, c, j) ==
    ((2 * (j + 1) + CtxCode(c) + b + inp[b][j + 1][1])
        % (2 * tanh_clipping + 1)) - tanh_clipping

NegInf == <<"-inf", 0>>
Fin(l) == <<"fin", l>>

\* ---------------------------------------- _one_to_many_logits (207-227)
MaskedLogit(l, masked) == IF masked THEN NegInf ELSE Fin(l)

one_to_many_logits(inp, ctx, m) ==
    [b \in Rows(Len(inp)) |->
        [j \in NodeIds(Len(inp[b])) |->
            MaskedLogit(NetLogit(inp, b, ctx[b], j), j \in m[b])]]

\* log_softmax(logits / temp) of one row, and .exp() of it: [w, z].
LogSoftmax(row, t) ==
    LET w == [j \in DOMAIN row |->
                IF row[j] = NegInf THEN 0
                ELSE 2 ^ ((row[j][2] + tanh_clipping) * (2 \div t))]
    IN [w |-> w, z |-> SumOver(w, DOMAIN row)]

IsNaN(p) == p.z = 0

\* ------------------------------------------------ _get_log_p (170-189)
get_log_p(t, inp, ctx, st) ==
    LET m == get_mask(st)
        logits == one_to_many_logits(inp, ctx, m)
    IN [log_p |-> [b \in DOMAIN logits |-> LogSoftmax(logits[b], t)],
        mask |-> m]

\* log_p.squeeze()[batch_id, selected] for one row
LogPSelected(lp, b, sel) == <<lp[b].w[sel[b]], lp[b].z>>

\* ---------------------------------------------- _select_node (135-150)
\* probs.max(1): an index of a maximal entry of each row.
ArgMaxSet(p) == {j \in DOMAIN p.w : \A k \in DOMAIN p.w : p.w[j] >= p.w[k]}
GreedyChoices(p) == {s \in [DOMAIN p -> UNION {DOMAIN p[b].w : b \in DOMAIN p}] :
                        \A b \in DOMAIN p : s[b] \in ArgMaxSet(p[b])}

\* probs.multinomial(1): an index of positive probability of each row.
Multinomial(p) == {s \in [DOMAIN p -> UNION {DOMAIN p[b].w : b \in DOMAIN p}] :
                        \A b \in DOMAIN p : p[b].w[s[b]] > 0}

\* mask.gather(1, selected.unsqueeze(-1)).data.any()
AnyMasked(m, s) == \E b \in DOMAIN s : s[b] \in m[b]

Outcome(kind, e, s) == [kind |-> kind, err |-> e, sel |-> s]

\* The test of the while loop at 145.
ResampleNeeded_FirstRow(m, s) == s[1] \in m[1]
ResampleNeeded(m, s) == AnyMasked(m, s)

\* The greedy branch (137-140): the arg-max, and the assertion on it.
BestUnmasked(row, mrow) ==
    {j \in DOMAIN row.w \ mrow : \A k \in DOMAIN row.w \ mrow : row.w[j] >= row.w[k]}
GreedyOutcomes_Fallback(p, m) ==
    {Outcome("return", "", s) :
        s \in {t \in [DOMAIN p -> UNION {DOMAIN p[b].w : b \in DOMAIN p}] :
                 \A b \in DOMAIN p :
                    IF BestUnmasked(p[b], m[b]) = {} THEN t[b] \in ArgMaxSet(p[b])
                    ELSE t[b] \in BestUnmasked(p[b], m[b])}}
GreedyOutcomes(p, m) ==
    {IF AnyMasked(m, s) THEN Outcome("raise", "AssertionError", s)
                        ELSE Outcome("return", "", s) :
        s \in GreedyChoices(p)}

\* The sampling branch (142-147) up to its return or its first entry into
\* the body of the while loop (the first draw hit a masked position).
SamplingOutcomes(p, m) ==
    IF Multinomial(p) = {} THEN {Outcome("raise", "RuntimeError", Unbound)}
    ELSE {IF ResampleNeeded(m, s) THEN Outcome("loop", "", s)
                                  ELSE Outcome("return", "", s) :
             s \in Multinomial(p)}

\* _select_node up to its return, its raise or its entry into the loop.
SelectEntry_Default(dt, p, m) ==
    IF dt = "sampling" THEN SamplingOutcomes(p, m) ELSE GreedyOutcomes(p, m)
SelectEntry(dt, p, m) ==
    IF dt = "greedy" THEN GreedyOutcomes(p, m)
    ELSE IF dt = "sampling" THEN SamplingOutcomes(p, m)
    ELSE {Outcome("raise", "NotImplementedError", Unbound)}

\* ------------------------------------------------- decoder (84-131)
UseReference(ref) == ref # None

\* tour_to_be_evaluated[:, i]
Column_First(ref, k) == [b \in DOMAIN ref |-> ref[b][1]]
Column(ref, k) == [b \in DOMAIN ref |-> ref[b][k + 1]]

InstantReward(k, inp, sel, prev, old) ==
    IF k = 0 THEN [b \in Rows(Len(inp)) |-> 0]
    ELSE IF 0 < k THEN Neg(calc_distance(inp, sel, prev))
    ELSE old

\* previous = selected (119)
NextPrevious_Keep(sel, prev) == IF prev = Unbound THEN sel ELSE prev
NextPrevious(sel, prev) == sel
\* tours.append(selected) (120)
TourEntry_Previous(sel, prev) == IF prev = Unbound THEN sel ELSE prev
TourEntry(sel, prev) == sel
\* state.update(selected) (122)
UpdateArgument_Previous(sel, prev) == IF prev = Unbound THEN sel ELSE prev
UpdateArgument(sel, prev) == sel
\* i += 1 (123)
NextI_Twice(k) == k + 2
NextI(k) == k + 1

\* embeddings[~mask].view(batch_size, n_node - i, -1): the rows' numbers of
\* unvisited nodes; the view has the intended shape iff each is n_node - i.
Available(m, N) == [b \in DOMAIN m |-> N - Cardinality(m[b])]
ViewIntended(m, N, k) == \A b \in DOMAIN m : N - Cardinality(m[b]) = N - k

\* reward_final (125)
RewardFinal_Last(inp, sel, ts) == Neg(calc_distance(inp, sel, ts[Len(ts)]))
RewardFinal(inp, sel, ts) == Neg(calc_distance(inp, sel, ts[1]))

EmptyRet == [log_ps |-> <<>>, instant_rewards |-> <<>>, values |-> <<>>,
             cost |-> <<>>, reward_final |-> <<>>, tours |-> <<>>]

Raise(e) ==
    /\ pc' = "error"
    /\ err' = e

\* Lines 107-123 of one iteration, with `sel` the node chosen at 104 or 106.
\* `shaped` is whether a view of unintended shape is let through by the
\* view's divisibility test and the critic (both depend on the embedding
\* width and the external ValueNet).
AfterSelect(sel, lp, m, shaped) ==
    IF Len(Squeeze(<<batch_size, 1, n_node>>)) < 2 THEN
        /\ Raise("IndexError")
        /\ selected' = sel
        /\ UNCHANGED <<state, i, log_ps, instant_rewards, values, tours, previous>>
    ELSE IF ~ViewIntended(m, n_node, i) /\ ~shaped THEN
        /\ Raise("RuntimeError")
        /\ selected' = sel
        /\ UNCHANGED <<state, i, log_ps, instant_rewards, values, tours, previous>>
    ELSE
        /\ pc' = "loop"
        /\ err' = ""
        /\ selected' = sel
        /\ instant_rewards' = Append(instant_rewards,
              InstantReward(i, input, sel, previous,
                  IF instant_rewards = <<>> THEN Unbound
                  ELSE instant_rewards[Len(instant_rewards)]))
        /\ values' = Append(values, Available(m, n_node))
        /\ log_ps' = Append(log_ps, [b \in Rows(batch_size) |-> LogPSelected(lp, b, sel)])
        /\ previous' = NextPrevious(sel, previous)
        /\ tours' = Append(tours, TourEntry(sel, previous))
        /\ state' = update(state, UpdateArgument(sel, previous))
        /\ i' = NextI(i)

\* ------------------------------------------------------------- Init
Init ==
    /\ decode_type = "None"
    /\ temp = 1
    /\ pc = "idle"
    /\ err = ""
    /\ caller = "decoder"
    /\ input = <<>>
    /\ tour_to_be_evaluated = None
    /\ state = make_state(<<>>)
    /\ i = 0
    /\ log_ps = <<>>
    /\ instant_rewards = <<>>
    /\ values = <<>>
    /\ tours = <<>>
    /\ selected = Unbound
    /\ previous = Unbound
    /\ probs = <<>>
    /\ mask = <<>>
    /\ draw = Unbound
    /\ diag = 0
    /\ ret = EmptyRet

Quiescent == pc = "idle"
Ended == pc \in {"returned", "select_returned", "error"}

ClearSelect ==
    /\ probs' = <<>>
    /\ mask' = <<>>
    /\ draw' = Unbound
    /\ diag' = 0

ClearFrame ==
    /\ input' = <<>>
    /\ tour_to_be_evaluated' = None
    /\ state' = make_state(<<>>)
    /\ i' = 0
    /\ log_ps' = <<>>
    /\ instant_rewards' = <<>>
    /\ values' = <<>>
    /\ tours' = <<>>
    /\ selected' = Unbound
    /\ previous' = Unbound
    /\ ret' = EmptyRet

\* ------------------------------------------- set_decode_type (46-49)
SetDecodeType ==
    /\ Quiescent
    /\ \E dt \in DecodeTypes, t \in {None} \cup {<<x>> : x \in Temps} :
          /\ decode_type' = dt
          /\ temp' = IF t # None THEN t[1] ELSE temp
    /\ UNCHANGED <<pc, err, caller, frame, selframe>>

\* ------------------------- forward (51-64) up to decoder's loop (84-97)
Forward ==
    /\ Quiescent
    /\ \E B \in 1..MaxBatch, N \in 1..MaxNodes, shape \in Shapes :
          /\ input' = Instance(B, N, shape)
          /\ \E ref \in {None} \cup RefTours(B, N) : tour_to_be_evaluated' = ref
          /\ state' = make_state(Instance(B, N, shape))
    /\ pc' = "loop"
    /\ UNCHANGED <<config, err, caller, i, log_ps, instant_rewards, values, tours,
                   selected, previous, ret, selframe>>

\* ------------------------- one iteration of the while loop (99-123)
DecodeStep ==
    /\ pc = "loop"
    /\ ~all_finished(state, n_node)
    /\ LET first_and_last == get_parallel_step_context(state)
           r == get_log_p(temp, input, first_and_last, state)
       IN IF \E b \in DOMAIN r.log_p : IsNaN(r.log_p[b]) THEN
               /\ Raise("AssertionError")
               /\ UNCHANGED <<frame, selframe>>
          ELSE IF UseReference(tour_to_be_evaluated) THEN
               /\ \E shaped \in BOOLEAN :
                     AfterSelect(Column(tour_to_be_evaluated, i), r.log_p, r.mask, shaped)
               /\ UNCHANGED <<input, tour_to_be_evaluated, ret, selframe>>
          ELSE \E o \in SelectEntry(decode_type, r.log_p, r.mask) :
               IF o.kind = "raise" THEN
                   /\ Raise(o.err)
                   /\ UNCHANGED <<frame, selframe>>
               ELSE IF o.kind = "return" THEN
                   /\ AfterSelect(o.sel, r.log_p, r.mask, FALSE)
                   /\ UNCHANGED <<input, tour_to_be_evaluated, ret, selframe>>
               ELSE
                   /\ pc' = "sampling"
                   /\ err' = ""
                   /\ probs' = r.log_p
                   /\ mask' = r.mask
                   /\ draw' = o.sel
                   /\ diag' = 0
                   /\ UNCHANGED frame
    /\ UNCHANGED <<config, caller>>

\* ------------------------------- the while loop of _select_node (145-147)
Resample ==
    /\ pc = "sampling"
    /\ ResampleNeeded(mask, draw)
    /\ diag < MaxRetries
    /\ diag' = diag + 1
    /\ \E s \in Multinomial(probs) : draw' = s
    /\ UNCHANGED <<config, pc, err, caller, frame, probs, mask>>

SampleReturn ==
    /\ pc = "sampling"
    /\ ~ResampleNeeded(mask, draw)
    /\ IF caller = "decoder" THEN
           /\ AfterSelect(draw, probs, mask, FALSE)
           /\ UNCHANGED <<input, tour_to_be_evaluated, ret>>
       ELSE
           /\ pc' = "select_returned"
           /\ err' = ""
           /\ UNCHANGED frame
    /\ UNCHANGED <<config, caller, selframe>>

\* --------------------------------------- decoder's epilogue (125-131)
Finish ==
    /\ pc = "loop"
    /\ all_finished(state, n_node)
    /\ ret' = [log_ps |-> Stack(log_ps, batch_size),
               instant_rewards |-> Stack(instant_rewards, batch_size),
               values |-> Stack(values, batch_size),
               cost |-> get_costs(input, Stack(tours, batch_size)),
               reward_final |-> RewardFinal(input, selected, tours),
               tours |-> Stack(tours, batch_size)]
    /\ pc' = "returned"
    /\ err' = ""
    /\ UNCHANGED <<config, caller, input, tour_to_be_evaluated, state, i, log_ps,
                   instant_rewards, values, tours, selected, previous, selframe>>

\* --------------------------- a direct call of _select_node(probs, mask)
DirectProbs(t, B, N) ==
    LET inp == Instance(B, N, 0)
        ctx == [b \in Rows(B) |-> <<"W_placeholder">>]
        logits == one_to_many_logits(inp, ctx, [b \in Rows(B) |-> {}])
    IN [b \in Rows(B) |-> LogSoftmax(logits[b], t)]

CallSelectNode ==
    /\ Quiescent
    /\ caller' = "direct"
    /\ UNCHANGED frame
    /\ \E B \in 1..MaxBatch, N \in 1..MaxNodes :
       \E m \in DirectMasks(B, N) :
       \E o \in SelectEntry(decode_type, DirectProbs(temp, B, N), m) :
          /\ probs' = DirectProbs(temp, B, N)
          /\ mask' = m
          /\ draw' = o.sel
          /\ diag' = 0
          /\ IF o.kind = "raise" THEN Raise(o.err)
             ELSE IF o.kind = "return" THEN pc' = "select_returned" /\ err' = err
             ELSE pc' = "sampling" /\ err' = err
    /\ UNCHANGED config

\* The call is over: its result, or its exception, has gone to the caller
\* and its frame is gone (forward, 63-64).
CallEnds ==
    /\ Ended
    /\ pc' = "idle"
    /\ err' = ""
    /\ caller' = "decoder"
    /\ ClearFrame
    /\ ClearSelect
    /\ UNCHANGED config

Next ==
    \/ SetDecodeType
    \/ CallEnds
    \/ Forward
    \/ DecodeStep
    \/ Resample
    \/ SampleReturn
    \/ Finish
    \/ CallSelectNode

Spec == Init /\ [][Next]_vars

\* ===================================================================
\* The claims
\* ===================================================================
InForward == batch_size > 0
Free == tour_to_be_evaluated = None
Returned == pc = "returned"
Point(b, node) == input[b][node + 1]
Euclid(p, q) == Sqrt((p[1] - q[1]) * (p[1] - q[1]) + (p[2] - q[2]) * (p[2] - q[2]))
TourSet(b) == {tours[k][b] : k \in 1..Len(tours)}

\* C1: for free selection in either decode mode, whenever decoder() returns,
\* each row of the returned tours has N entries and holds every node index
\* of 0..N-1, so exactly once each.
C1_ToursArePermutations ==
    (Returned /\ Free) =>
        \A b \in Rows(batch_size) :
            /\ Len(ret.tours[b]) = n_node
            /\ {ret.tours[b][k] : k \in 1..n_node} = NodeIds(n_node)
            /\ \A k, l \in 1..n_node : k # l => ret.tours[b][k] # ret.tours[b][l]

C1_Witness ==
    /\ Returned /\ Free
    /\ n_node >= 3 /\ batch_size >= 2
    /\ decode_type = "sampling"
    /\ ret.tours[1] # ret.tours[2]

RefPrefix(b, k) == {tour_to_be_evaluated[b][l] : l \in 1..k}
RefContext(k) ==
    [b \in Rows(batch_size) |->
        IF k = 0 THEN <<"W_placeholder">>
        ELSE <<"first_last", tour_to_be_evaluated[b][1], tour_to_be_evaluated[b][k]>>]
RefLogP(b, k) ==
    LET row == LogSoftmax(
                 one_to_many_logits(input, RefContext(k),
                     [c \in Rows(batch_size) |-> RefPrefix(c, k)])[b], temp)
    IN <<row.w[tour_to_be_evaluated[b][k + 1]], row.z>>

\* C2: with a reference tour supplied, the returned tours equal the
\* reference, and the returned log_p of step k is the policy's
\* log-probability of the forced node under the mask of the nodes forced
\* before it; _select_node is not entered, whatever decode_type is.
C2_TeacherForcing ==
    /\ (InForward /\ ~Free) => (pc # "sampling" /\ err # "NotImplementedError")
    /\ (Returned /\ ~Free) =>
          /\ ret.tours = tour_to_be_evaluated
          /\ \A b \in Rows(batch_size) : \A k \in 0..(n_node - 1) :
                ret.log_ps[b][k + 1] = RefLogP(b, k)

C2_Witness ==
    /\ Returned /\ ~Free
    /\ decode_type = "None"
    /\ n_node >= 3
    /\ tour_to_be_evaluated[1] # tour_to_be_evaluated[2]

\* C3: the loop counter never passes N, every iteration appends exactly one
\* entry to each of the four lists, and on return i = N and each returned
\* array has exactly N columns.
C3_ExactlyNSteps ==
    /\ i <= n_node
    /\ state.i = i
    /\ Len(log_ps) = i /\ Len(instant_rewards) = i
    /\ Len(values) = i /\ Len(tours) = i
    /\ Returned =>
          /\ i = n_node
          /\ \A b \in Rows(batch_size) :
                /\ Len(ret.log_ps[b]) = n_node
                /\ Len(ret.instant_rewards[b]) = n_node
                /\ Len(ret.values[b]) = n_node
                /\ Len(ret.tours[b]) = n_node

C3_Witness == Returned /\ n_node >= 3 /\ i = n_node /\ Len(tours) = n_node

RefDistinct(b, k) ==
    \A l, n \in 1..k : l # n => tour_to_be_evaluated[b][l] # tour_to_be_evaluated[b][n]
MaskCount ==
    \A b \in Rows(batch_size) :
        /\ get_mask(state)[b] = TourSet(b)
        /\ Cardinality(get_mask(state)[b]) <= i
        /\ Free => Cardinality(get_mask(state)[b]) = i
        /\ ~Free => (Cardinality(get_mask(state)[b]) = i <=> RefDistinct(b, i))
MaskGrows ==
    (pc \in {"loop", "sampling"} /\ InForward) =>
        /\ DOMAIN state'.visited = DOMAIN state.visited
        /\ \A b \in DOMAIN state.visited :
              /\ state.visited[b] \subseteq state'.visited[b]
              /\ i' = i + 1 => selected'[b] \in state'.visited[b]
C5_SingleNode ==
    (InForward /\ n_node = 1 /\ (~Free \/ decode_type \in Supported)
        /\ pc \in {"returned", "error"}) =>
        /\ Returned
        /\ i = 1
        /\ \A b \in Rows(batch_size) : ret.cost[b] = 0 /\ ret.reward_final[b] = 0

\* C6: reward_final of a row is minus the Euclidean distance between the
\* row's last-selected and first-selected nodes.
C6_ClosingEdge ==
    Returned =>
        \A b \in Rows(batch_size) :
            ret.reward_final[b] =
                0 - Euclid(Point(b, ret.tours[b][n_node]), Point(b, ret.tours[b][1]))

C6_Witness ==
    /\ Returned /\ n_node >= 3
    /\ ret.reward_final[1] # 0
    /\ ret.reward_final[1] # ret.reward_final[2]

\* C7 as stated: with an unsupported decode mode set, no rollout is ever
\* started and no forward call completes.
C7_Original ==
    (decode_type \notin Supported) => ~(InForward /\ pc \in {"loop", "sampling", "returned"})

\* C7 as amended: an unsupported mode is accepted by the constructor and by
\* set_decode_type; it ends a call only when _select_node is reached, with
\* NotImplementedError, which in a free-selection rollout is the first
\* iteration, before any step is recorded.
C7_Amended ==
    /\ (decode_type \notin Supported /\ InForward /\ Free) =>
          /\ i = 0 /\ tours = <<>> /\ selected = Unbound
          /\ \/ pc = "loop"
             \/ pc = "error" /\ err = "NotImplementedError"
    /\ (decode_type \notin Supported /\ caller = "direct") =>
          (pc = "error" /\ err = "NotImplementedError")
    /\ err = "NotImplementedError" => decode_type \notin Supported

C7_Witness ==
    /\ decode_type = "beam" /\ InForward /\ Free /\ n_node >= 2 /\ batch_size >= 2
    /\ pc = "error" /\ err = "NotImplementedError"

IsArgMax(b, j) == \A k \in DOMAIN probs[b].w : probs[b].w[j] >= probs[b].w[k]
\* The policy's row for batch row b at step k of a rollout, from the nodes
\* the rollout has recorded before step k.
StepRow(b, k) ==
    LogSoftmax(
        one_to_many_logits(input,
            [c \in Rows(batch_size) |->
                IF k = 0 THEN <<"W_placeholder">>
                ELSE <<"first_last", tours[1][c], tours[k][c]>>],
            [c \in Rows(batch_size) |-> {tours[l][c] : l \in 1..k}])[b], temp)
\* C8: in greedy mode _select_node returns only each row's arg-max and
\* only when no row's arg-max is masked; otherwise it ends with an
\* assertion failure on the arg-max selection, never another node.
C8_GreedyAborts ==
    /\ (caller = "direct" /\ decode_type = "greedy") =>
          /\ pc \in {"select_returned", "error"}
          /\ \A b \in DOMAIN probs : IsArgMax(b, draw[b])
          /\ pc = "select_returned" => \A b \in DOMAIN probs : draw[b] \notin mask[b]
          /\ pc = "error" =>
                /\ err = "AssertionError"
                /\ \E b \in DOMAIN probs : draw[b] \in mask[b]
    /\ (InForward /\ Free /\ decode_type = "greedy") =>
          /\ pc \in {"loop", "returned", "error"}
          /\ \A b \in Rows(batch_size) : \A k \in 1..i :
                /\ tours[k][b] \notin {tours[l][b] : l \in 1..(k - 1)}
                /\ \A j \in NodeIds(n_node) :
                      StepRow(b, k - 1).w[tours[k][b]] >= StepRow(b, k - 1).w[j]

C8_Witness ==
    /\ caller = "direct" /\ decode_type = "greedy"
    /\ pc = "error" /\ err = "AssertionError"
    /\ \E b, c \in DOMAIN probs : draw[b] \in mask[b] /\ draw[c] \notin mask[c]

SamplingReturnsValid ==
    /\ (caller = "direct" /\ decode_type = "sampling" /\ pc = "select_returned") =>
          \A b \in DOMAIN draw : draw[b] \notin mask[b]
    /\ (InForward /\ Free /\ decode_type = "sampling" /\ i > 0) =>
          \A b \in Rows(batch_size) :
             selected[b] \notin {tours[k][b] : k \in 1..(i - 1)}
RetryStep ==
    /\ (pc = "sampling" /\ (\E b \in DOMAIN draw : draw[b] \in mask[b])) =>
          /\ pc' = "sampling"
          /\ diag' = diag + 1
          /\ probs' = probs /\ mask' = mask
    /\ (pc = "sampling" /\ (\A b \in DOMAIN draw : draw[b] \notin mask[b])) =>
          /\ pc' # "sampling"
          /\ diag' = diag /\ draw' = draw
    /\ diag' # diag => (pc = "sampling" \/ diag' = 0)
\* C9: in sampling mode a draw with any row on a masked position is always
\* followed by a redraw with one more diagnostic, a draw with no row masked
\* by the return of that draw; _select_node returns only unmasked nodes.
C9_RejectionSampling == [](SamplingReturnsValid) /\ [][RetryStep]_vars

C9_Witness ==
    /\ caller = "direct" /\ decode_type = "sampling" /\ pc = "select_returned"
    /\ diag >= 2 /\ Len(draw) >= 2

\* C10: instant_rewards of step 0 is 0; for a later step it is minus the
\* Euclidean distance between the nodes selected at the step before and at
\* this step.
C10_InstantRewards ==
    /\ (InForward /\ i > 0 /\ pc \in {"loop", "returned"}) =>
          (previous = tours[i] /\ previous = selected)
    /\ Returned =>
          \A b \in Rows(batch_size) :
             /\ ret.instant_rewards[b][1] = 0
             /\ \A k \in 2..n_node :
                   ret.instant_rewards[b][k] =
                      0 - Euclid(Point(b, ret.tours[b][k - 1]), Point(b, ret.tours[b][k]))

C10_Witness ==
    /\ Returned /\ n_node >= 3
    /\ \E b \in Rows(batch_size) :
          ret.instant_rewards[b][3] #
              0 - Euclid(Point(b, ret.tours[b][1]), Point(b, ret.tours[b][3]))

====
